---- MODULE Spec2Model ----
(***************************************************************************)
(* LEGIC RF reader (armsrc/legicrf.c): demodulation, modulation, frame     *)
(* handling, session handshake, byte read protocol and the host commands.  *)
(***************************************************************************)
EXTENDS Integers, Sequences, FiniteSets, TLC

VARIABLES
  input_threshold,  \* static int32_t input_threshold
  prng,             \* keystream generator state (legic_prng): seed and position
  card,             \* static legic_card_select_t card
  legic_mem,        \* card memory image: the bytes stored since the last memset
  dout,             \* level of the output line GPIO_SSC_DOUT
  carrier,          \* TRUE from init_reader until switch_off
  pc,               \* position of the running host command
  op,               \* the host command running (or the last one that ran)
  offset, len, iv,  \* parameters of LegicRfReader (iv also of LegicRfInfo)
  i,                \* loop index of the read loops
  card_type,        \* local card_type of LegicRfInfo / LegicRfReader
  byte,             \* result of the last read_byte of the running command
  host,             \* cmd_send calls made by the last step
  io,               \* bus activity of the last step
  cal,              \* calibration loop: passes made and amplitudes seen so far
  rd,               \* the read_byte call made by the last step
  nreads,           \* read commands transmitted by the running command
  nresp,            \* host responses sent by the running command
  oob,              \* TRUE once a byte was stored outside legic_mem
  call              \* the call or scenario followed: arguments, results, clock

vars == <<input_threshold, prng, card, legic_mem, dout, carrier, pc, op,
          offset, len, iv, i, card_type, byte, host, io, cal, rd, nreads,
          nresp, oob, call>>

-----------------------------------------------------------------------------
(* Program constants *)

LEGIC_CARD_MEMSIZE == 1024
LEGIC_READ == 1
UID_SIZE == 4
IV_BITS == 7
TYPE_BITS == 6
RESP_BITS == 12
INFO_IV == 1
THRESHOLD_FLOOR == 8
SAMPLES_PER_BIT == 5
CRC4_POLY == 12
CRC4_INIT == 5
RWD_TIME_PAUSE == 20
RWD_TIME_1 == 100
RWD_TIME_0 == 60
TAG_FRAME_WAIT == 330

(* Bounds of the model *)

MaxCalibSamples == 2
MaxReads == 5
MaxBulk == 1026
MaxPos == 3

-----------------------------------------------------------------------------
(* Fixed-width integer helpers *)

Pow2(n) == 2 ^ n
BitAt(x, k) == (x \div Pow2(k)) % 2
Xor(a, b) == (a + b) % 2
U8(x) == x % 256
U16(x) == x % 65536
S8(b) == IF b >= 128 THEN b - 256 ELSE b
ABS(x) == IF x < 0 THEN -x ELSE x
MAX(a, b) == IF a > b THEN a ELSE b
MIN(a, b) == IF a < b THEN a ELSE b

\* the value of an expression bound by a singleton: in The({e(x) : x \in {v}})
\* v is evaluated once, before e, as the statements of the code are
The(S) == CHOOSE y \in S : TRUE

RECURSIVE BitOrUpTo(_, _, _)
BitOrUpTo(a, b, n) ==
  IF n = 0 THEN 0
  ELSE BitOrUpTo(a, b, n - 1)
       + Pow2(n - 1) * MAX(BitAt(a, n - 1), BitAt(b, n - 1))

\* a | b for operands below 2^20
BitOr(a, b) == The({BitOrUpTo(p[1], p[2], 20) : p \in {<<a, b>>}})

\* a uint32_t as the tuple of its 32 bits, bit k at index k + 1;
\* ToBits takes a value below 2^31
ToBits(v) ==
  The({<<>> \o [k \in 1..32 |-> IF k < 32 THEN BitAt(w, k - 1) ELSE 0] :
         w \in {v}})

RECURSIVE LowBits(_, _)
\* the value of the n low bits (n <= 30) of a uint32_t
LowBits(f, n) == IF n = 0 THEN 0 ELSE LowBits(f, n - 1) + Pow2(n - 1) * f[n]

BYTEx(f, n) ==
  LowBits(<<>> \o [k \in 1..32 |-> IF k + 8 * n <= 32 THEN f[k + 8 * n] ELSE 0], 8)

-----------------------------------------------------------------------------
(* Keystream generator (legic_prng.h): init(seed), forward(n), get_bit().   *)
(* Its state is the seed and the position reached since the seed was set.   *)

KeyBit(seed, pos) ==
  IF seed = 0 THEN 0
  ELSE BitAt((seed * 29 + 7) * (pos + 3) + pos * pos, 2)

legic_prng_init(seed) == [seed |-> seed, pos |-> 0]
legic_prng_forward(st, n) == [st EXCEPT !.pos = @ + n]
legic_prng_get_bit(st) == KeyBit(st.seed, st.pos)

-----------------------------------------------------------------------------
(* CRC collaborator (crc.h): bit-serial CRC, least significant bit first    *)

RECURSIVE BitXorUpTo(_, _, _)
BitXorUpTo(a, b, n) ==
  IF n = 0 THEN 0
  ELSE BitXorUpTo(a, b, n - 1)
       + Pow2(n - 1) * Xor(BitAt(a, n - 1), BitAt(b, n - 1))

RECURSIVE crc_update(_, _, _, _, _)
crc_update(state, polynom, order, data, width) ==
  IF width = 0 THEN state
  ELSE The({crc_update(n, polynom, order, data \div 2, width - 1) :
              n \in {IF Xor(state % 2, data % 2) = 1
                       THEN BitXorUpTo(state \div 2, polynom, order)
                       ELSE state \div 2}})

crc_finish(state, order) == state % Pow2(order)

\* checksum over the UID bytes (MCC)
CRC8Legic(uid) ==
  LET s1 == crc_update(85, 99, 8, uid[1], 8)
      s2 == crc_update(s1, 99, 8, uid[2], 8)
      s3 == crc_update(s2, 99, 8, uid[3], 8)
      s4 == crc_update(s3, 99, 8, uid[4], 8)
  IN crc_finish(s4, 8)

-----------------------------------------------------------------------------
(* Demodulation *)

\* one I/Q pair <<q, i>> of raw bytes from the FPGA
sample_power(pair) ==
  The({LET q == a[1]
           ii == a[2]
       IN MAX(ii, q) + (MIN(ii, q) \div 2) :
         a \in {<<ABS(S8(pair[1])), ABS(S8(pair[2]))>>}})

\* faulty variant: the decision is taken from the samples p[1] and p[2]
rx_decide_early(p, th) ==
  IF p[2] > th /\ p[3] > th THEN [bit |-> 1, diag |-> 0, msg |-> <<>>]
  ELSE IF p[2] < th /\ p[3] < th THEN [bit |-> 0, diag |-> 0, msg |-> <<>>]
  ELSE [bit |-> 0, diag |-> 1, msg |-> <<p[2], p[3], th>>]

\* lines 85-93: the decision on the samples p[0..4] (p[k] is at index k + 1);
\* msg holds the arguments of the Dbprintf of line 92
rx_decide(p, th) ==
  IF p[3] > th /\ p[4] > th THEN [bit |-> 1, diag |-> 0, msg |-> <<>>]
  ELSE IF p[3] < th /\ p[4] < th THEN [bit |-> 0, diag |-> 0, msg |-> <<>>]
  ELSE [bit |-> 0, diag |-> 1, msg |-> <<p[3], p[4], th>>]

\* rx_bit reading the sample stream from pair number at + 1 on: the bit, whether
\* the diagnostic was printed, and the number of pairs read so far
rx_bit(stream, at, th) ==
  The({[d |-> rx_decide(p, th), at |-> at + SAMPLES_PER_BIT] :
         p \in {<<>> \o [k \in 1..SAMPLES_PER_BIT |-> sample_power(stream[at + k])]}})

-----------------------------------------------------------------------------
(* Modulation and frame handling *)

\* tx_bit: LOW, HIGH on the output line, one pause-pulse symbol on the air
tx_bit(bit) == [sym |-> bit, line |-> 2]

RECURSIVE tx_loop(_, _, _, _)
\* faulty variant: sends the most significant of the flen bits first
tx_loop_msb_first(frame, flen, k, s) ==
  IF k >= flen THEN s
  ELSE LET bit == frame[flen - k]
           t == tx_bit(Xor(bit, legic_prng_get_bit(s.prng)))
       IN The({tx_loop(frame, flen, k + 1, n) :
                 n \in {[prng |-> legic_prng_forward(s.prng, 1),
                         bits |-> Append(s.bits, t.sym),
                         line |-> s.line + t.line]}})

\* lines 135-139: s = [prng, bits, line]
tx_loop(frame, flen, k, s) ==
  IF k >= flen THEN s
  ELSE LET bit == frame[k + 1]
           t == tx_bit(Xor(bit, legic_prng_get_bit(s.prng)))
       IN The({tx_loop(frame, flen, k + 1, n) :
                 n \in {[prng |-> legic_prng_forward(s.prng, 1),
                         bits |-> Append(s.bits, t.sym),
                         line |-> s.line + t.line]}})

\* faulty variant: every frame starts the keystream of its seed afresh
tx_frame_restarts(frame, flen, st) ==
  The({[tx_loop(f, flen, 0, [prng |-> legic_prng_init(st.seed),
                             bits |-> <<>>, line |-> 0])
          EXCEPT !.line = @ + 2] : f \in {frame}})

\* tx_frame(frame, len): frame is a uint32_t, len <= 32
tx_frame(frame, flen, st) ==
  The({[tx_loop(f, flen, 0, [prng |-> st, bits |-> <<>>, line |-> 0])
          EXCEPT !.line = @ + 2] : f \in {frame}})

\* faulty variant: the keystream stands still on an ambiguous bit decision
rx_step_stalls(k, s, b) ==
  [frame |-> [s.frame EXCEPT ![k + 1] =
                MAX(@, Xor(b.d.bit, legic_prng_get_bit(s.prng)))],
   prng |-> legic_prng_forward(s.prng, 1 - b.d.diag),
   used |-> b.at,
   diags |-> s.diags + b.d.diag]

\* lines 155-156 with the bit b just demodulated: the state after bit k
rx_step(k, s, b) ==
  [frame |-> [s.frame EXCEPT ![k + 1] =
                MAX(@, Xor(b.d.bit, legic_prng_get_bit(s.prng)))],
   prng |-> legic_prng_forward(s.prng, 1),
   used |-> b.at,
   diags |-> s.diags + b.d.diag]

RECURSIVE rx_loop(_, _, _, _, _)
\* lines 154-157: s = [frame, prng, used, diags]
rx_loop(flen, k, s, stream, th) ==
  IF k >= flen THEN s
  ELSE The({rx_loop(flen, k + 1, n, stream, th) :
              n \in {rx_step(k, s, rx_bit(stream, s.used, th))}})

\* rx_frame(len): len <= 32, the samples come from stream
rx_frame(flen, st, stream, th) ==
  The({rx_loop(flen, 0, [frame |-> ToBits(0), prng |-> st, used |-> 0, diags |-> 0],
               v, th) : v \in {stream}})

-----------------------------------------------------------------------------
(* Legic reader *)

\* faulty variant: type 0x1d gets the geometry of type 0x0d
init_card_wrong_row(cardtype, p_card) ==
  LET c == [p_card EXCEPT !.tagtype = cardtype]
  IN CASE cardtype \in {13, 29} ->
            [ret |-> 0, card |-> [c EXCEPT !.cmdsize = 6, !.addrsize = 5, !.cardsize = 22]]
       [] cardtype = 61 ->
            [ret |-> 0, card |-> [c EXCEPT !.cmdsize = 11, !.addrsize = 10, !.cardsize = 1024]]
       [] OTHER ->
            [ret |-> 2, card |-> [c EXCEPT !.cmdsize = 0, !.addrsize = 0, !.cardsize = 0]]

\* faulty variant: an unknown type leaves the geometry of the earlier card
init_card_keeps_geometry(cardtype, p_card) ==
  LET c == [p_card EXCEPT !.tagtype = cardtype]
  IN CASE cardtype = 13 ->
            [ret |-> 0, card |-> [c EXCEPT !.cmdsize = 6, !.addrsize = 5, !.cardsize = 22]]
       [] cardtype = 29 ->
            [ret |-> 0, card |-> [c EXCEPT !.cmdsize = 9, !.addrsize = 8, !.cardsize = 256]]
       [] cardtype = 61 ->
            [ret |-> 0, card |-> [c EXCEPT !.cmdsize = 11, !.addrsize = 10, !.cardsize = 1024]]
       [] OTHER ->
            [ret |-> 2, card |-> c]

\* init_card(cardtype, p_card): the return value and *p_card afterwards
init_card(cardtype, p_card) ==
  LET c == [p_card EXCEPT !.tagtype = cardtype]
  IN CASE cardtype = 13 ->
            [ret |-> 0, card |-> [c EXCEPT !.cmdsize = 6, !.addrsize = 5, !.cardsize = 22]]
       [] cardtype = 29 ->
            [ret |-> 0, card |-> [c EXCEPT !.cmdsize = 9, !.addrsize = 8, !.cardsize = 256]]
       [] cardtype = 61 ->
            [ret |-> 0, card |-> [c EXCEPT !.cmdsize = 11, !.addrsize = 10, !.cardsize = 1024]]
       [] OTHER ->
            [ret |-> 2, card |-> [c EXCEPT !.cmdsize = 0, !.addrsize = 0, !.cardsize = 0]]

calc_crc4(cmd, cmd_sz, value) ==
  The({crc_finish(crc_update(CRC4_INIT, CRC4_POLY, 4, d, 8 + cmd_sz), 4) :
         d \in {BitOr(value * Pow2(cmd_sz), cmd)}})

\* line 284
read_cmd(index) == U16(BitOr(index * 2, LEGIC_READ))

\* faulty variant: the data byte is returned whatever the CRC nibble is
read_check_ignores_crc(cmd, tx, rx, data, crc, calc_crc) ==
  [ret |-> data,
   prng |-> rx.prng, cmd |-> cmd, bits |-> tx.bits, line |-> tx.line,
   frame |-> LowBits(rx.frame, RESP_BITS), used |-> rx.used,
   diags |-> rx.diags + (IF calc_crc # crc THEN 1 ELSE 0)]

\* lines 295-301, given the frame sent and the frame received, split
read_check(cmd, tx, rx, data, crc, calc_crc) ==
  [ret |-> IF calc_crc # crc THEN -1 ELSE data,
   prng |-> rx.prng, cmd |-> cmd, bits |-> tx.bits, line |-> tx.line,
   frame |-> LowBits(rx.frame, RESP_BITS), used |-> rx.used,
   diags |-> rx.diags + (IF calc_crc # crc THEN 1 ELSE 0)]

\* lines 291-295
read_split(cmd, cmd_sz, tx, rx, data) ==
  read_check(cmd, tx, rx, data, BYTEx(rx.frame, 1), calc_crc4(cmd, cmd_sz, data))

\* lines 287-291
read_exchange(cmd, cmd_sz, tx, rx) ==
  read_split(cmd, cmd_sz, tx, rx, BYTEx(rx.frame, 0))

\* lines 284-288
read_send(cmd, cmd_sz, tx, stream, th) ==
  The({read_exchange(cmd, cmd_sz, tx, rx) :
         rx \in {rx_frame(RESP_BITS, tx.prng, stream, th)}})

\* lines 284-286
read_transmit(cmd, cmd_sz, st, stream, th) ==
  The({read_send(cmd, cmd_sz, tx, stream, th) :
         tx \in {tx_frame(ToBits(cmd), cmd_sz, st)}})

\* read_byte(index, cmd_sz): index is a uint16_t; -1 is the CRC failure
read_byte(index, cmd_sz, st, stream, th) ==
  The({read_transmit(cmd, cmd_sz, st, stream, th) : cmd \in {read_cmd(index)}})

\* LegicRfReader lines 356-359: len after "do not read beyond card memory"
ClampLen(off, length, cardsize) ==
  IF length + off > cardsize THEN U16(cardsize - off) ELSE length

-----------------------------------------------------------------------------
(* The air interface: what the FPGA delivers while a frame is received      *)

\* an I/Q pair whose sample_power is a (0 <= a <= 127)
AmpPair(a) == <<a, 0>>

\* five samples of one bit period, by what the card modulates
Window(kind, th) ==
  CASE kind = "one"  -> <<AmpPair(0), AmpPair(th + 1), AmpPair(th + 2), AmpPair(th + 1), AmpPair(0)>>
    [] kind = "zero" -> <<AmpPair(th + 3), AmpPair(0), AmpPair(th - 1), AmpPair(0), AmpPair(th + 3)>>
    [] kind = "edge" -> <<AmpPair(0), AmpPair(0), AmpPair(th + 1), AmpPair(th - 1), AmpPair(0)>>
    [] OTHER         -> <<AmpPair(0), AmpPair(0), AmpPair(th), AmpPair(th + 1), AmpPair(0)>>

Kinds == {"one", "zero", "edge", "level"}
KindOf(bit) == IF bit = 1 THEN "one" ELSE "zero"

\* the sample stream of a sequence of bit periods
StreamOf(kinds, th) ==
  The({<<>> \o [k \in 1..(SAMPLES_PER_BIT * Len(ks)) |->
                  Window(ks[((k - 1) \div SAMPLES_PER_BIT) + 1],
                         th)[((k - 1) % SAMPLES_PER_BIT) + 1]] : ks \in {kinds}})

\* bit periods of a card that sends the n low bits of v under keystream st
CardSends(v, n, st) ==
  <<>> \o [k \in 1..n |-> KindOf(Xor(BitAt(v, k - 1), KeyBit(st.seed, st.pos + k - 1)))]

\* one bit period of a frame disturbed: n = <<position, kind>>, position 0 is none
Disturbed(kinds, n) ==
  The({<<>> \o [k \in 1..Len(ks) |-> IF k = n[1] THEN n[2] ELSE ks[k]] :
         ks \in {kinds}})

\* a bulk read of a whole card is followed in a quiet field (SpecBulk)
Bulk == call.fn = "bulk"

\* every 6-bit card type is answered to one request in a quiet field (SpecTypes)
AllTypes == call.fn = "types"
Quiet == Bulk \/ AllTypes

Noise == IF Quiet THEN {<<0, "zero">>} ELSE {<<0, "zero">>, <<1, "edge">>}

\* I/Q pairs seen while the card charges: amplitudes 7, 8, 13
CalibPairs == IF Quiet THEN {<<8, 0>>} ELSE {<<7, 0>>, <<8, 0>>, <<253, 12>>}

\* card-type frames a card (or none) may answer with
CardTypes ==
  IF Bulk THEN {13, 61}
  ELSE IF AllTypes THEN 0..(Pow2(TYPE_BITS) - 1)
  ELSE {13, 29, 61, 0, 5}

\* content of the card in the field
CardByte(a) == (a * 37 + 11) % 256
CardUid == <<CardByte(0), CardByte(1), CardByte(2), CardByte(3)>>
DataAt(a) == IF a = 4 THEN {CRC8Legic(CardUid), 90} ELSE {CardByte(a)}

\* host requests: LegicRfReader(offset, len, iv)
Requests ==
  IF Bulk THEN {<<1020, 20, 1>>, <<65535, 1, 1>>}
  ELSE IF AllTypes THEN {<<0, 1, 85>>}
  ELSE {<<0, 0, 1>>, <<0, 2, 85>>, <<20, 3, 1>>, <<22, 2, 85>>,
        <<1022, 65535, 85>>, <<65535, 1, 1>>}

-----------------------------------------------------------------------------
(* State after construction *)

NoCard == [tagtype |-> 0, cmdsize |-> 0, addrsize |-> 0, cardsize |-> 0,
           uid |-> <<0, 0, 0, 0>>]
\* legic_mem lists the bytes stored since memset(legic_mem, 0x00, ...), by index;
\* every other byte of the LEGIC_CARD_MEMSIZE bytes is still zero
ZeroMem == <<>>
MemAt(mem, k) == IF k \in DOMAIN mem THEN mem[k] ELSE 0
MemStore(mem, k, v) == (k :> v) @@ mem
NoCal == [n |-> 0, seen |-> {}]
NoIO == [samples |-> 0, tx |-> <<>>, line |-> 0, diags |-> 0]
NoCall == [fn |-> "none"]

\* cmd_send(CMD_ACK, arg0, arg1, arg2, data, len)
cmd_send(arg0, arg1, arg2, data, length) ==
  [arg0 |-> arg0, arg1 |-> arg1, arg2 |-> arg2, data |-> data, len |-> length]
AckFail == cmd_send(0, 0, 0, <<>>, 0)

Init ==
  /\ input_threshold = 0
  /\ prng = legic_prng_init(0)
  /\ card = NoCard
  /\ legic_mem = ZeroMem
  /\ dout = 0
  /\ carrier = FALSE
  /\ pc = "idle"
  /\ op = "none"
  /\ offset = 0 /\ len = 0 /\ iv = 0 /\ i = 0 /\ card_type = 0 /\ byte = 0
  /\ host = <<>>
  /\ io = NoIO
  /\ cal = NoCal
  /\ rd = <<>>
  /\ nreads = 0
  /\ nresp = 0
  /\ oob = FALSE
  /\ call = NoCall

-----------------------------------------------------------------------------
(* Host commands, step by step *)

Locals == <<offset, len, iv, i, card_type, byte>>
Session == <<input_threshold, prng, card, legic_mem, dout, carrier>>

\* init_reader(clear_mem), and the bookkeeping of a new command
init_reader ==
  /\ dout' = 1
  /\ carrier' = TRUE
  /\ legic_mem' = ZeroMem
  /\ io' = [NoIO EXCEPT !.line = 1]
  /\ host' = <<>> /\ cal' = NoCal /\ rd' = <<>>
  /\ nreads' = 0 /\ nresp' = 0 /\ oob' = FALSE

\* LegicRfInfo line 311, and setup_phase_reader(0x01) up to line 238
LegicRfInfo ==
  /\ pc = "idle"
  /\ init_reader
  /\ op' = "info"
  /\ iv' = INFO_IV /\ offset' = 0 /\ len' = 0 /\ i' = 0 /\ card_type' = 0 /\ byte' = 0
  /\ input_threshold' = THRESHOLD_FLOOR
  /\ pc' = "calib"
  /\ UNCHANGED <<prng, card, call>>

\* LegicRfReader line 347, and setup_phase_reader(iv) up to line 238
LegicRfReader ==
  /\ pc = "idle"
  /\ \E r \in Requests :
       /\ offset' = r[1] /\ len' = r[2] /\ iv' = r[3]
  /\ init_reader
  /\ op' = "reader"
  /\ i' = 0 /\ card_type' = 0 /\ byte' = 0
  /\ input_threshold' = THRESHOLD_FLOOR
  /\ pc' = "calib"
  /\ UNCHANGED <<prng, card, call>>

\* faulty variant: the last sample instead of the largest
TrackLast(th, sample) == sample

\* lines 240-243: the running maximum
TrackMax(th, sample) == IF sample > th THEN sample ELSE th

\* line 247: threshold = noise floor * 2
NoiseFloorTimes2(th) == th * 2

\* one pass of the do-while loop; the timer decides whether another follows
CalibSample ==
  /\ pc = "calib"
  /\ \E pair \in CalibPairs, more \in BOOLEAN :
       LET sample == sample_power(pair)
           th == TrackMax(input_threshold, sample)
       IN /\ more => cal.n + 1 < MaxCalibSamples
          /\ cal' = [n |-> cal.n + 1, seen |-> cal.seen \cup {sample}]
          /\ IF more
               THEN input_threshold' = th /\ pc' = "calib"
               ELSE input_threshold' = NoiseFloorTimes2(th) /\ pc' = "tx_iv"
  /\ io' = [NoIO EXCEPT !.samples = 1]
  /\ host' = <<>> /\ rd' = <<>>
  /\ UNCHANGED <<prng, card, legic_mem, dout, carrier, op, Locals, nreads, nresp, oob, call>>

\* lines 249-250
SendIV ==
  /\ pc = "tx_iv"
  /\ \E tx \in {tx_frame(ToBits(iv), IV_BITS, legic_prng_init(0))} :
        /\ prng' = tx.prng
        /\ io' = [NoIO EXCEPT !.tx = <<tx.bits>>, !.line = tx.line]
  /\ cal' = NoCal /\ host' = <<>> /\ rd' = <<>>
  /\ pc' = "reseed"
  /\ UNCHANGED <<input_threshold, card, legic_mem, dout, carrier, op, Locals,
                 nreads, nresp, oob, call>>

\* faulty variant: the keystream is re-seeded but not advanced
ReseedOnly ==
  /\ pc = "reseed"
  /\ prng' = legic_prng_init(iv)
  /\ io' = NoIO /\ host' = <<>> /\ rd' = <<>>
  /\ pc' = "rx_type"
  /\ UNCHANGED <<input_threshold, card, legic_mem, dout, carrier, op, Locals,
                 cal, nreads, nresp, oob, call>>

\* lines 251-258
Reseed ==
  /\ pc = "reseed"
  /\ prng' = legic_prng_forward(legic_prng_init(iv), 2)
  /\ io' = NoIO /\ host' = <<>> /\ rd' = <<>>
  /\ pc' = "rx_type"
  /\ UNCHANGED <<input_threshold, card, legic_mem, dout, carrier, op, Locals,
                 cal, nreads, nresp, oob, call>>

\* line 261
ReceiveType ==
  /\ pc = "rx_type"
  /\ \E t \in CardTypes, n \in Noise :
       \E rx \in {rx_frame(TYPE_BITS, prng,
                             StreamOf(Disturbed(CardSends(t, TYPE_BITS, prng), n),
                                      input_threshold),
                             input_threshold)} :
          /\ card_type' = LowBits(rx.frame, 30)
          /\ prng' = rx.prng
          /\ io' = [NoIO EXCEPT !.samples = rx.used, !.diags = rx.diags]
  /\ host' = <<>> /\ rd' = <<>>
  /\ pc' = "ack"
  /\ UNCHANGED <<input_threshold, card, legic_mem, dout, carrier, op,
                 offset, len, iv, i, byte, cal, nreads, nresp, oob, call>>

\* faulty variant: every recognized type is acknowledged with 0x39
AckFrameSame(t) == IF t \in {13, 29, 61} THEN <<57>> ELSE <<>>

\* lines 264-272: the acknowledgment frame of a card type, <<>> for none
AckFrame(t) ==
  CASE t = 13 -> <<25>>
    [] t = 29 -> <<57>>
    [] t = 61 -> <<57>>
    [] OTHER -> <<>>

\* lines 264-274; the caller keeps the low byte of the type returned
SendAck ==
  /\ pc = "ack"
  /\ LET a == AckFrame(card_type)
     IN IF a = <<>>
          THEN /\ io' = NoIO
               /\ UNCHANGED prng
          ELSE \E tx \in {tx_frame(ToBits(a[1]), TYPE_BITS, prng)} :
                  /\ prng' = tx.prng
                  /\ io' = [NoIO EXCEPT !.tx = <<tx.bits>>, !.line = tx.line]
  /\ card_type' = U8(card_type)
  /\ host' = <<>> /\ rd' = <<>>
  /\ pc' = "init_card"
  /\ UNCHANGED <<input_threshold, card, legic_mem, dout, carrier, op,
                 offset, len, iv, i, byte, cal, nreads, nresp, oob, call>>

\* lines 315-318 and 351-354
InitCard ==
  /\ pc = "init_card"
  /\ \E r \in {init_card(card_type, card)} :
        /\ card' = r.card
        /\ IF r.ret # 0
             THEN /\ host' = <<AckFail>>
                  /\ nresp' = nresp + 1
                  /\ pc' = "out"
             ELSE /\ host' = <<>>
                  /\ nresp' = nresp
                  /\ pc' = IF op = "info" THEN "read_uid" ELSE "clamp"
  /\ io' = NoIO /\ rd' = <<>>
  /\ UNCHANGED <<input_threshold, prng, legic_mem, dout, carrier, op, Locals,
                 cal, nreads, oob, call>>

\* what the air may deliver in answer to a read command: <<12-bit frame, noise>>.
\* A frame with the CRC the reader expects arrives for at most MaxReads commands.
\* In a bulk read the first MaxBulk commands are answered with such a frame and
\* every later one with a frame whose CRC is wrong.
Answers(index, cmd_sz) ==
  LET cmd == read_cmd(index)
      Good(d) == d + 256 * calc_crc4(cmd, cmd_sz, d)
      Bad(d) == d + 256 * ((calc_crc4(cmd, cmd_sz, d) + 1) % 16)
  IN (IF Bulk /\ nreads < MaxBulk
        THEN {}
        ELSE {<<Bad(d), <<0, "zero">>>> : d \in DataAt(index)})
     \cup (IF nreads < (IF Bulk THEN MaxBulk ELSE MaxReads)
             THEN {<<Good(d), n>> : d \in DataAt(index), n \in Noise}
             ELSE {})

\* read_byte(index, cmd_sz) against the answer a
ReadAnswer(index, cmd_sz, a) ==
  LET st == legic_prng_forward(prng, cmd_sz)
      stream == StreamOf(Disturbed(CardSends(a[1], RESP_BITS, st), a[2]), input_threshold)
  IN read_byte(index, cmd_sz, prng, stream, input_threshold)

ReadRecord(index, cmd_sz, r) ==
  <<[index |-> index, cmd_sz |-> cmd_sz, cmd |-> r.cmd, frame |-> r.frame, ret |-> r.ret]>>

ReadIO(r) == [samples |-> r.used, tx |-> <<r.bits>>, line |-> r.line, diags |-> r.diags]

\* LegicRfInfo lines 321-328
InfoReadUid ==
  /\ pc = "read_uid"
  /\ i < UID_SIZE
  /\ \E a \in Answers(i, card.cmdsize) :
       \E r \in {ReadAnswer(i, card.cmdsize, a)} :
          /\ prng' = r.prng
          /\ byte' = r.ret
          /\ rd' = ReadRecord(i, card.cmdsize, r)
          /\ io' = ReadIO(r)
          /\ IF r.ret = -1
               THEN /\ host' = <<AckFail>>
                    /\ nresp' = nresp + 1
                    /\ pc' = "out"
                    /\ UNCHANGED <<card, i>>
               ELSE /\ card' = [card EXCEPT !.uid[i + 1] = r.ret % 256]
                    /\ i' = i + 1
                    /\ host' = <<>>
                    /\ nresp' = nresp
                    /\ pc' = IF i + 1 < UID_SIZE THEN "read_uid" ELSE "read_mcc"
  /\ nreads' = nreads + 1
  /\ UNCHANGED <<input_threshold, legic_mem, dout, carrier, op, offset, len, iv,
                 card_type, cal, oob, call>>

\* sizeof(legic_card_select_t)
SELECT_SIZE == 9

\* faulty variant: any byte that passed its CRC is taken as the checksum
InfoAnswerUnchecked(mcc, calc_mcc, c) ==
  IF mcc = -1 THEN AckFail ELSE cmd_send(1, 0, 0, <<c>>, SELECT_SIZE)

\* LegicRfInfo lines 333-339: the response after the MCC was read
InfoAnswer(mcc, calc_mcc, c) ==
  IF mcc # calc_mcc THEN AckFail ELSE cmd_send(1, 0, 0, <<c>>, SELECT_SIZE)

\* LegicRfInfo lines 331-339
InfoReadMcc ==
  /\ pc = "read_mcc"
  /\ \E a \in Answers(4, card.cmdsize) :
       \E r \in {ReadAnswer(4, card.cmdsize, a)} :
       LET mcc == r.ret
           calc_mcc == CRC8Legic(card.uid)
       IN /\ prng' = r.prng
          /\ rd' = ReadRecord(4, card.cmdsize, r)
          /\ io' = ReadIO(r)
          /\ host' = <<InfoAnswer(mcc, calc_mcc, card)>>
  /\ nreads' = nreads + 1
  /\ nresp' = nresp + 1
  /\ pc' = "out"
  /\ UNCHANGED <<input_threshold, card, legic_mem, dout, carrier, op, Locals,
                 cal, oob, call>>

\* LegicRfReader lines 356-361
ReaderClamp ==
  /\ pc = "clamp"
  /\ len' = ClampLen(offset, len, card.cardsize)
  /\ i' = 0
  /\ io' = NoIO /\ host' = <<>> /\ rd' = <<>>
  /\ pc' = "read_loop"
  /\ UNCHANGED <<Session, op, offset, iv, card_type, byte, cal, nreads, nresp, oob, call>>

\* faulty variant: the failure of a read is not noticed
ReadFailedNever(ret) == FALSE

\* LegicRfReader line 363
ReadFailed(ret) == ret = -1

\* line 367 with i >= LEGIC_CARD_MEMSIZE is undefined: the byte lands in whatever
\* lies behind the image and the loop goes on, or the access faults and the
\* command never returns
StoreOutside == {"stored", "fault"}

\* LegicRfReader lines 361-368
ReaderReadByte ==
  /\ pc = "read_loop"
  /\ i < len
  /\ \E a \in Answers(U16(offset + i), card.cmdsize) :
       \E r \in {ReadAnswer(U16(offset + i), card.cmdsize, a)} :
          /\ prng' = r.prng
          /\ byte' = r.ret
          /\ rd' = ReadRecord(U16(offset + i), card.cmdsize, r)
          /\ io' = ReadIO(r)
          /\ IF ReadFailed(r.ret)
               THEN /\ host' = <<AckFail>>
                    /\ nresp' = nresp + 1
                    /\ pc' = "out"
                    /\ UNCHANGED <<legic_mem, i, oob>>
               ELSE /\ host' = <<>>
                    /\ nresp' = nresp
                    /\ IF i < LEGIC_CARD_MEMSIZE
                         THEN /\ legic_mem' = MemStore(legic_mem, i, U8(r.ret))
                              /\ oob' = oob
                              /\ i' = U16(i + 1)
                              /\ pc' = "read_loop"
                         ELSE \E outcome \in StoreOutside :
                              /\ legic_mem' = legic_mem
                              /\ oob' = TRUE
                              /\ i' = IF outcome = "stored" THEN U16(i + 1) ELSE i
                              /\ pc' = IF outcome = "stored" THEN "read_loop" ELSE "fault"
  /\ nreads' = nreads + 1
  /\ UNCHANGED <<input_threshold, card, dout, carrier, op, offset, len, iv,
                 card_type, cal, call>>

\* LegicRfReader line 371; bytes past the buffer are whatever lies there
ReaderSendOk ==
  /\ pc = "read_loop"
  /\ ~(i < len)
  /\ \E junk \in {0, 255} :
       host' = <<cmd_send(1, len, 0,
                          <<>> \o [k \in 1..len |-> IF k <= LEGIC_CARD_MEMSIZE
                                              THEN MemAt(legic_mem, k - 1) ELSE junk],
                          len)>>
  /\ nresp' = nresp + 1
  /\ io' = NoIO /\ rd' = <<>>
  /\ pc' = "out"
  /\ UNCHANGED <<Session, op, Locals, cal, nreads, oob, call>>

\* OUT: switch_off(), and the command returns
SwitchOff ==
  /\ pc = "out"
  /\ carrier' = FALSE
  /\ offset' = 0 /\ len' = 0 /\ iv' = 0 /\ i' = 0 /\ card_type' = 0 /\ byte' = 0
  /\ io' = NoIO /\ host' = <<>> /\ rd' = <<>>
  /\ nreads' = 0 /\ nresp' = 0
  /\ pc' = "idle"
  /\ UNCHANGED <<input_threshold, prng, card, legic_mem, dout, op, cal, oob, call>>

\* arguments the host may pass to the unimplemented commands
StubArgs == {0, 65535}

\* faulty variant: the stub prepares the reader as the other commands do
LegicRfWriterInits ==
  /\ pc = "idle"
  /\ \E o \in StubArgs, l \in StubArgs, v \in {1}, data \in {<<1, 2>>} :
       op' = "writer"
  /\ host' = <<AckFail>>
  /\ io' = [NoIO EXCEPT !.line = 1] /\ rd' = <<>>
  /\ dout' = 1 /\ legic_mem' = ZeroMem
  /\ UNCHANGED <<input_threshold, prng, card, carrier, pc, Locals, cal, nreads, nresp,
                 oob, call>>

\* LegicRfWriter(offset, len, iv, data)
LegicRfWriter ==
  /\ pc = "idle"
  /\ \E o \in StubArgs, l \in StubArgs, v \in {1}, data \in {<<1, 2>>} :
       op' = "writer"
  /\ host' = <<AckFail>>
  /\ io' = NoIO /\ rd' = <<>>
  /\ UNCHANGED <<Session, pc, Locals, cal, nreads, nresp, oob, call>>

\* LegicRfSimulate(phase, frame, reqresp)
LegicRfSimulate ==
  /\ pc = "idle"
  /\ \E phase \in StubArgs, frame \in StubArgs, reqresp \in {0} :
       op' = "simulate"
  /\ host' = <<AckFail>>
  /\ io' = NoIO /\ rd' = <<>>
  /\ UNCHANGED <<Session, pc, Locals, cal, nreads, nresp, oob, call>>

Next ==
  \/ LegicRfInfo
  \/ LegicRfReader
  \/ CalibSample
  \/ SendIV
  \/ Reseed
  \/ ReceiveType
  \/ SendAck
  \/ InitCard
  \/ InfoReadUid
  \/ InfoReadMcc
  \/ ReaderClamp
  \/ ReaderReadByte
  \/ ReaderSendOk
  \/ SwitchOff
  \/ LegicRfWriter
  \/ LegicRfSimulate

Spec == Init /\ [][Next]_vars

-----------------------------------------------------------------------------
(* Single calls of the functions, from arbitrary arguments and keystream     *)
(* states: the call to make is drawn by InitCalls and made by one action.    *)

Seeds == {0, 1, 85}
KeyStates == {legic_prng_forward(legic_prng_init(sd), p) : sd \in Seeds, p \in 0..MaxPos}
Thresholds == {16, 26}
FrameLens == {0, 1, 2, 3, 6, 7, 9, 11, 12, 31, 32}
Patterns == {"zeros", "ones", "alt01", "alt10", "msb", "lsb", "full"}

\* a uint32_t by the pattern of its bits: "full" sets all 32, the others only
\* bits below n
FrameOf(pat, n) ==
  <<>> \o [k \in 1..32 |->
             CASE pat = "full"  -> 1
               [] k > n         -> 0
               [] pat = "ones"  -> 1
               [] pat = "alt01" -> k % 2
               [] pat = "alt10" -> (k + 1) % 2
               [] pat = "msb"   -> IF k = n THEN 1 ELSE 0
               [] pat = "lsb"   -> IF k = 1 THEN 1 ELSE 0
               [] OTHER         -> 0]

KindList == <<"one", "zero", "edge", "level">>
\* bit periods as the demodulator may meet them: rotations of all four kinds
KindSeq(n, r) == <<>> \o [k \in 1..n |-> KindList[((k + r) % 4) + 1]]

\* selections an earlier session may have left behind
PriorCards ==
  {NoCard,
   [tagtype |-> 61, cmdsize |-> 11, addrsize |-> 10, cardsize |-> 1024, uid |-> CardUid],
   [tagtype |-> 5, cmdsize |-> 0, addrsize |-> 0, cardsize |-> 0,
    uid |-> <<CardByte(0), CardByte(1), 0, 0>>]}

ReadIndexes == {0, 4, 21, 255, 1023, 32768, 65535}
ReadData == {0, 165, 255}

CallsIdle ==
  /\ legic_mem = ZeroMem /\ dout = 0 /\ carrier = FALSE
  /\ pc = "idle" /\ op = "none"
  /\ offset = 0 /\ len = 0 /\ iv = 0 /\ i = 0 /\ card_type = 0 /\ byte = 0
  /\ host = <<>> /\ io = NoIO /\ cal = NoCal /\ rd = <<>>
  /\ nreads = 0 /\ nresp = 0 /\ oob = FALSE

InitCalls ==
  /\ CallsIdle
  /\ \/ /\ call \in [fn : {"tx_frame"}, done : {FALSE}, frame : {FrameOf(pt, n) : pt \in Patterns, n \in {32}},
                     flen : FrameLens, st0 : KeyStates]
        /\ prng = call.st0 /\ input_threshold = 0 /\ card = NoCard
     \/ /\ call \in [fn : {"tx_frame"}, done : {FALSE}, frame : {FrameOf(pt, 6) : pt \in Patterns},
                     flen : {6}, st0 : KeyStates]
        /\ prng = call.st0 /\ input_threshold = 0 /\ card = NoCard
     \/ /\ \E n \in FrameLens, r \in 0..3 :
             call \in [fn : {"rx_frame"}, done : {FALSE}, flen : {n}, kinds : {KindSeq(n, r)},
                       st0 : KeyStates, out : {ToBits(0)}]
        /\ prng = call.st0 /\ input_threshold \in Thresholds /\ card = NoCard
     \/ /\ \E n \in FrameLens \ {0}, pt \in Patterns \ {"full"} :
             call \in [fn : {"roundtrip"}, done : {FALSE}, flen : {n}, frame : {FrameOf(pt, n)},
                       st0 : KeyStates, out : {ToBits(0)}, txpos : {0}, rxpos : {0}]
        /\ prng = call.st0 /\ input_threshold \in Thresholds /\ card = NoCard
     \/ /\ call \in [fn : {"init_card"}, done : {FALSE}, cardtype : 0..255,
                     prior : PriorCards, ret : {0}]
        /\ card = call.prior /\ prng = legic_prng_init(0) /\ input_threshold = 0
     \/ /\ \E th \in Thresholds :
             /\ call \in [fn : {"rx_bit"}, done : {FALSE},
                          samples : [1..SAMPLES_PER_BIT -> {th - 1, th, th + 1}],
                          out : {0}, msg : {<<>>}]
             /\ input_threshold = th
        /\ prng = legic_prng_init(0) /\ card = NoCard
     \/ /\ call \in [fn : {"read_byte"}, done : {FALSE}, index : ReadIndexes,
                     cmd_sz : {6, 9, 11}, answer : {d + 256 * c : d \in ReadData, c \in 0..15},
                     st0 : {legic_prng_forward(legic_prng_init(sd), 14) : sd \in {1, 85}},
                     ret : {0}]
        /\ prng = call.st0 /\ input_threshold = 16 /\ card = NoCard

CallsFrame == <<legic_mem, dout, carrier, pc, op, offset, len, iv, i, card_type,
                byte, host, cal, nreads, nresp, oob>>

CallTxFrame ==
  /\ call.fn = "tx_frame" /\ ~call.done
  /\ \E tx \in {tx_frame(call.frame, call.flen, prng)} :
        /\ prng' = tx.prng
        /\ io' = [NoIO EXCEPT !.tx = <<tx.bits>>, !.line = tx.line]
  /\ call' = [call EXCEPT !.done = TRUE]
  /\ UNCHANGED <<CallsFrame, input_threshold, card, rd>>

CallRxFrame ==
  /\ call.fn = "rx_frame" /\ ~call.done
  /\ \E rx \in {rx_frame(call.flen, prng, StreamOf(call.kinds, input_threshold),
                          input_threshold)} :
        /\ prng' = rx.prng
        /\ io' = [NoIO EXCEPT !.samples = rx.used, !.diags = rx.diags]
        /\ call' = [call EXCEPT !.done = TRUE, !.out = rx.frame]
  /\ UNCHANGED <<CallsFrame, input_threshold, card, rd>>

\* tx_frame here, rx_frame at the far end with its own, identical keystream;
\* the air carries each modulated bit as the bit period of that bit
CallRoundTrip ==
  /\ call.fn = "roundtrip" /\ ~call.done
  /\ \E tx \in {tx_frame(call.frame, call.flen, prng)} :
     \E rx \in {rx_frame(call.flen, call.st0,
                          StreamOf(<<>> \o [k \in 1..Len(tx.bits) |-> KindOf(tx.bits[k])],
                                   input_threshold),
                          input_threshold)} :
        /\ prng' = tx.prng
        /\ io' = [samples |-> rx.used, tx |-> <<tx.bits>>, line |-> tx.line, diags |-> rx.diags]
        /\ call' = [call EXCEPT !.done = TRUE, !.out = rx.frame,
                                !.txpos = tx.prng.pos, !.rxpos = rx.prng.pos]
  /\ UNCHANGED <<CallsFrame, input_threshold, card, rd>>

CallInitCard ==
  /\ call.fn = "init_card" /\ ~call.done
  /\ \E r \in {init_card(call.cardtype, card)} :
        /\ card' = r.card
        /\ call' = [call EXCEPT !.done = TRUE, !.ret = r.ret]
  /\ UNCHANGED <<CallsFrame, input_threshold, prng, io, rd>>

\* rx_bit on a stream that holds two more pairs than the five samples given
CallRxBit ==
  /\ call.fn = "rx_bit" /\ ~call.done
  /\ \E r \in {rx_bit(<<>> \o [k \in 1..(SAMPLES_PER_BIT + 2) |->
                                 IF k <= SAMPLES_PER_BIT THEN AmpPair(call.samples[k])
                                 ELSE AmpPair(input_threshold + 1)],
                      0, input_threshold)} :
        /\ io' = [NoIO EXCEPT !.samples = r.at, !.diags = r.d.diag]
        /\ call' = [call EXCEPT !.done = TRUE, !.out = r.d.bit, !.msg = r.d.msg]
  /\ UNCHANGED <<CallsFrame, input_threshold, prng, card, rd>>

CallReadByte ==
  /\ call.fn = "read_byte" /\ ~call.done
  /\ \E r \in {ReadAnswer(call.index, call.cmd_sz, <<call.answer, <<0, "zero">>>>)} :
        /\ prng' = r.prng
        /\ io' = ReadIO(r)
        /\ rd' = ReadRecord(call.index, call.cmd_sz, r)
        /\ call' = [call EXCEPT !.done = TRUE, !.ret = r.ret]
  /\ UNCHANGED <<CallsFrame, input_threshold, card>>

NextCalls ==
  \/ CallTxFrame
  \/ CallRxFrame
  \/ CallRoundTrip
  \/ CallInitCard
  \/ CallRxBit
  \/ CallReadByte

SpecCalls == InitCalls /\ [][NextCalls]_vars

-----------------------------------------------------------------------------
(* Bulk reads of whole cards: LegicRfReader alone, in a quiet field, with    *)
(* up to MaxBulk bytes answered.                                             *)

InitBulk ==
  /\ CallsIdle
  /\ input_threshold = 0
  /\ prng = legic_prng_init(0)
  /\ card = NoCard
  /\ call = [fn |-> "bulk"]

\* the steps of a running command
Steps ==
  \/ CalibSample
  \/ SendIV
  \/ Reseed
  \/ ReceiveType
  \/ SendAck
  \/ InitCard
  \/ ReaderClamp
  \/ ReaderReadByte
  \/ ReaderSendOk
  \/ SwitchOff

NextBulk ==
  \/ LegicRfReader
  \/ Steps

SpecBulk == InitBulk /\ [][NextBulk]_vars

\* the timer keeps advancing and the front end delivers every sample asked for:
\* a command that can take its next step takes it
SpecBulkLive == SpecBulk /\ WF_vars(Steps)

-----------------------------------------------------------------------------
(* The handshake on the microsecond clock: setup_phase_reader from line 249  *)
(* on, the calibration done. call.now is the timer, call.ts the variable ts, *)
(* call.first the timer when the first sample of the card-type frame was     *)
(* requested (-1 before). The timer was restarted by init_reader (line 224)  *)
(* some 5 ms earlier and does not wrap within a session.                     *)

\* the timer when calibration ends: the loop of lines 239-244 ran for 5000 us
CalibEnds == {5000, 5018}
\* how far a busy-wait loop overshoots its deadline, in total over a frame
Overshoot == {0, 3}
\* time taken by lines 254-255, undisturbed or held up
ReseedCost == {1, 400}
\* timer advance between two readings in the loop of line 258
PollStep == {1, 100}
\* time from the end of the loop until the FPGA is asked for the first byte
RxSetup == {0, 9}

\* duration of tx_frame: a pause-pulse period per bit and the closing pause
RECURSIVE tx_time(_, _)
tx_time(bits, t) ==
  IF bits = <<>> THEN t + RWD_TIME_PAUSE
  ELSE The({tx_time(Tail(bits), n) :
              n \in {t + (IF Head(bits) = 1 THEN RWD_TIME_1 ELSE RWD_TIME_0)}})

InitWait ==
  /\ legic_mem = ZeroMem /\ dout = 1 /\ carrier = TRUE
  /\ pc = "tx_iv" /\ op = "reader"
  /\ offset = 0 /\ len = 1 /\ iv \in {1, 85} /\ i = 0 /\ card_type = 0 /\ byte = 0
  /\ host = <<>> /\ io = [NoIO EXCEPT !.samples = 1] /\ cal = NoCal /\ rd = <<>>
  /\ nreads = 0 /\ nresp = 0 /\ oob = FALSE
  /\ input_threshold = NoiseFloorTimes2(THRESHOLD_FLOOR)
  /\ prng = legic_prng_init(0)
  /\ card = NoCard
  /\ \E t \in CalibEnds : call = [fn |-> "wait", now |-> t, ts |-> t - 5000, first |-> -1]

WaitFrame == <<input_threshold, card, legic_mem, dout, carrier, op, offset, len, iv,
               i, byte, cal, nreads, nresp, oob>>

\* lines 249-251: the IV frame, then ts = GetCountUS()
WaitSendIV ==
  /\ pc = "tx_iv"
  /\ \E tx \in {tx_frame(ToBits(iv), IV_BITS, legic_prng_init(0))}, d \in Overshoot :
        /\ prng' = tx.prng
        /\ io' = [NoIO EXCEPT !.tx = <<tx.bits>>, !.line = tx.line]
        /\ \E t \in {tx_time(tx.bits, call.now) + d} :
              call' = [call EXCEPT !.now = t, !.ts = t]
  /\ host' = <<>> /\ rd' = <<>>
  /\ card_type' = card_type
  /\ pc' = "reseed"
  /\ UNCHANGED WaitFrame

\* lines 254-255
WaitReseed ==
  /\ pc = "reseed"
  /\ prng' = legic_prng_forward(legic_prng_init(iv), 2)
  /\ \E c \in ReseedCost : call' = [call EXCEPT !.now = @ + c]
  /\ io' = NoIO /\ host' = <<>> /\ rd' = <<>>
  /\ card_type' = card_type
  /\ pc' = "wait"
  /\ UNCHANGED WaitFrame

\* faulty variant: the loop is left at the first reading of the timer
WaitPollOnce ==
  /\ pc = "wait"
  /\ pc' = "rx_type"
  /\ \E s \in PollStep : call' = [call EXCEPT !.now = @ + s]
  /\ io' = NoIO /\ host' = <<>> /\ rd' = <<>>
  /\ UNCHANGED <<prng, card_type>>
  /\ UNCHANGED WaitFrame

\* line 258: one reading of the timer in while(GetCountUS() < ts + TAG_FRAME_WAIT)
WaitPoll ==
  /\ pc = "wait"
  /\ IF call.now < call.ts + TAG_FRAME_WAIT
       THEN /\ pc' = "wait"
            /\ \E s \in PollStep : call' = [call EXCEPT !.now = @ + s]
       ELSE /\ pc' = "rx_type"
            /\ call' = call
  /\ io' = NoIO /\ host' = <<>> /\ rd' = <<>>
  /\ UNCHANGED <<prng, card_type>>
  /\ UNCHANGED WaitFrame

\* line 261: rx_frame(6); a sample pair arrives every 19 us
WaitReceiveType ==
  /\ pc = "rx_type"
  /\ \E t \in CardTypes, n \in Noise, g \in RxSetup :
       \E rx \in {rx_frame(TYPE_BITS, prng,
                             StreamOf(Disturbed(CardSends(t, TYPE_BITS, prng), n),
                                      input_threshold),
                             input_threshold)} :
          /\ card_type' = LowBits(rx.frame, 30)
          /\ prng' = rx.prng
          /\ io' = [NoIO EXCEPT !.samples = rx.used, !.diags = rx.diags]
          /\ call' = [call EXCEPT !.first = call.now + g,
                                  !.now = call.now + g + 19 * rx.used]
  /\ host' = <<>> /\ rd' = <<>>
  /\ pc' = "ack"
  /\ UNCHANGED WaitFrame

NextWait == WaitSendIV \/ WaitReseed \/ WaitPoll \/ WaitReceiveType

SpecWait == InitWait /\ [][NextWait]_vars

\* LegicRfReader(0, 1, 0x55) against a card of any 6-bit type
InitTypes ==
  /\ CallsIdle
  /\ input_threshold = 0
  /\ prng = legic_prng_init(0)
  /\ card = NoCard
  /\ call = [fn |-> "types"]

SpecTypes == InitTypes /\ [][NextBulk]_vars

-----------------------------------------------------------------------------
(* Properties *)

Recognized == {13, 29, 61}

\* C1: in LegicRfReader, for every requested offset and len and every
\* recognized card type, the length the read loop uses after clamping keeps
\* offset + length within the card memory size and is never larger than the
\* requested len.
C1_ClampInBounds ==
  [][pc = "clamp" => (offset + len' <= card.cardsize /\ len' <= len)]_vars

\* what the k-th bit of a frame becomes under the keystream that stood at st0
Crypted(bit, st0, k) == Xor(bit, KeyBit(st0.seed, st0.pos + k - 1))

\* C2: tx_frame(frame, L) and rx_frame(L) leave the keystream exactly L
\* positions further than they found it, whatever the frame and whatever the
\* bit decisions (ambiguous ones included), and bit k of the frame meets the
\* keystream bit at the entry position plus k - 1: each iteration reads the
\* current keystream bit, then advances by one.
C2_KeystreamAdvance ==
  (call.fn \in {"tx_frame", "rx_frame"} /\ call.done) =>
    /\ prng.seed = call.st0.seed
    /\ prng.pos = call.st0.pos + call.flen
    /\ call.fn = "tx_frame" =>
         /\ Len(io.tx[1]) = call.flen
         /\ \A k \in 1..call.flen :
              io.tx[1][k] = Crypted(call.frame[k], call.st0, k)
    /\ call.fn = "rx_frame" =>
         /\ io.samples = SAMPLES_PER_BIT * call.flen
         /\ \A k \in 1..32 :
              call.out[k] = IF k <= call.flen
                              THEN Crypted(IF call.kinds[k] = "one" THEN 1 ELSE 0,
                                           call.st0, k)
                              ELSE 0

C2_Witness ==
  /\ call.fn = "rx_frame" /\ call.done
  /\ call.flen = 12 /\ call.st0.seed = 85 /\ call.st0.pos = MaxPos
  /\ io.diags > 0
  /\ prng.pos = MaxPos + 12

\* C3: for L in 1..32 and V < 2^L, when tx_frame(V, L) runs against a
\* keystream at position p and its modulated bits reach rx_frame(L) unchanged,
\* with an identical keystream also at p, rx_frame returns V and both
\* keystreams end at p + L.
C3_RoundTrip ==
  (call.fn = "roundtrip" /\ call.done) =>
    /\ call.out = call.frame
    /\ call.txpos = call.st0.pos + call.flen
    /\ call.rxpos = call.st0.pos + call.flen
    /\ io.diags = 0

C3_Witness ==
  /\ call.fn = "roundtrip" /\ call.done
  /\ call.flen = 32 /\ call.frame = FrameOf("alt01", 32)
  /\ call.st0.seed = 85 /\ call.st0.pos = MaxPos
  /\ call.out = call.frame
  /\ call.rxpos = MaxPos + 32

\* C4: read_byte(index, cmd_sz) sends the command (index << 1) | READ (a
\* 16-bit value) as a frame of cmd_sz bits, receives one 12-bit frame whose
\* low 8 bits are the data byte and whose next 4 bits are the CRC nibble, and
\* returns the data byte if and only if the nibble equals the CRC-4 over the
\* (8 + cmd_sz)-bit value (data << cmd_sz) | command; otherwise it returns -1,
\* which is no byte value.
C4_ReadByte ==
  (call.fn = "read_byte" /\ call.done) =>
    LET cmd == (2 * call.index + LEGIC_READ) % 65536
        data == call.answer % 256
        nibble == call.answer \div 256
        sent == legic_prng_forward(call.st0, call.cmd_sz)
    IN /\ rd[1].cmd = cmd
       /\ Len(io.tx) = 1 /\ Len(io.tx[1]) = call.cmd_sz
       /\ \A k \in 1..call.cmd_sz :
            io.tx[1][k] = Crypted(BitAt(cmd, k - 1), call.st0, k)
       /\ io.samples = SAMPLES_PER_BIT * RESP_BITS
       /\ rd[1].frame = call.answer
       /\ prng = legic_prng_forward(sent, RESP_BITS)
       /\ (call.ret = data) <=> (nibble = calc_crc4(cmd, call.cmd_sz, data))
       /\ (call.ret = -1) <=> (nibble # calc_crc4(cmd, call.cmd_sz, data))
       /\ call.ret \in (0..255) \cup {-1}
       /\ -1 \notin 0..255

C4_Witness ==
  /\ call.fn = "read_byte" /\ call.done
  /\ call.index = 21 /\ call.cmd_sz = 9 /\ call.answer % 256 = 165
  /\ call.ret = -1
  /\ io.diags = 1

\* the success response of LegicRfInfo for the selection c
InfoOk(c) == cmd_send(1, 0, 0, <<c>>, SELECT_SIZE)

\* the response of LegicRfInfo, once it is made
C5_Response ==
  (op = "info" /\ pc = "out") =>
    /\ Len(host) = 1 /\ nresp = 1
    /\ host[1] \in {InfoOk(card), AckFail}
    /\ host[1] = InfoOk(card) <=>
         /\ card.tagtype \in Recognized
         /\ nreads = UID_SIZE + 1
         /\ rd # <<>> /\ rd[1].index = UID_SIZE
         /\ rd[1].ret # -1
         /\ rd[1].ret = CRC8Legic(card.uid)

\* the reads of LegicRfInfo, one by one
C5_Reads ==
  (op = "info" /\ rd' # <<>>) =>
    /\ pc \in {"read_uid", "read_mcc"} /\ card.tagtype \in Recognized
    /\ rd'[1].index = nreads /\ nreads' = nreads + 1 /\ nreads <= UID_SIZE
    /\ rd'[1].ret # -1 <=>
         rd'[1].frame \div 256 =
           calc_crc4(rd'[1].cmd, card.cmdsize, rd'[1].frame % 256)
    /\ rd'[1].ret = -1 => (pc' = "out" /\ host' = <<AckFail>>)
    /\ (rd'[1].ret # -1 /\ nreads < UID_SIZE) =>
         /\ card' = [card EXCEPT !.uid[nreads + 1] = rd'[1].frame % 256]
         /\ host' = <<>>
         /\ pc' # "out"

\* C5: LegicRfInfo reports success if and only if the handshake yielded a
\* recognized card type, the reads of addresses 0, 1, 2, 3 and 4 (in that
\* order) all passed the CRC-4 check and the byte read at address 4 equals the
\* checksum over the four UID bytes read at addresses 0..3; in every other
\* case it reports the zero-length failure acknowledgment, and a CRC failure
\* on a UID byte stops the operation before any later address is read.
C5_InfoSuccess == []C5_Response /\ [][C5_Reads]_vars

C5_Witness ==
  /\ op = "info" /\ pc = "out"
  /\ host = <<InfoOk(card)>>
  /\ card.uid = CardUid /\ card.tagtype = 29
  /\ nreads = UID_SIZE + 1

\* C6: in LegicRfReader, when the read of the i-th byte fails its CRC check,
\* no read command is transmitted for any later address (the command goes
\* straight to switch_off and returns), and the host receives the zero-length
\* failure acknowledgment, which carries none of the bytes read before.
C6_AbortOnCrcFailure ==
  [][/\ (op = "reader" /\ rd' # <<>> /\ rd'[1].ret = -1) =>
          /\ pc' = "out"
          /\ host' = <<cmd_send(0, 0, 0, <<>>, 0)>>
          /\ nresp' = 1
          /\ i' = i /\ legic_mem' = legic_mem
     /\ (op = "reader" /\ pc = "out") =>
          /\ pc' = "idle" /\ ~carrier'
          /\ rd' = <<>> /\ io'.tx = <<>> /\ host' = <<>>]_vars

C6_Witness ==
  /\ op = "reader" /\ pc = "out"
  /\ rd # <<>> /\ rd[1].ret = -1 /\ rd[1].index = offset + 2
  /\ i = 2 /\ len = 3
  /\ DOMAIN legic_mem = {0, 1}
  /\ host = <<AckFail>>

\* C7: init_card returns success with (command width, address width, memory
\* size) = (6, 5, 22) for type 0x0d, (9, 8, 256) for type 0x1d and
\* (11, 10, 1024) for type 0x3d, and for every other one-byte type code the
\* non-zero unsupported-card result with all three set to zero.
C7_CardTable ==
  (call.fn = "init_card" /\ call.done) =>
    LET geometry == <<card.cmdsize, card.addrsize, card.cardsize>>
    IN CASE call.cardtype = 13 -> call.ret = 0 /\ geometry = <<6, 5, 22>>
         [] call.cardtype = 29 -> call.ret = 0 /\ geometry = <<9, 8, 256>>
         [] call.cardtype = 61 -> call.ret = 0 /\ geometry = <<11, 10, 1024>>
         [] OTHER -> call.ret # 0 /\ geometry = <<0, 0, 0>>

C7_Witness ==
  /\ call.fn = "init_card" /\ call.done
  /\ call.cardtype = 29 /\ call.prior.cardsize = 1024
  /\ call.ret = 0 /\ card.cmdsize = 9 /\ card.addrsize = 8 /\ card.cardsize = 256

\* C8 as stated: after a lookup with an unrecognized tag type every field of
\* the card selection is zero (tag type, command width, address width, memory
\* size and the 4 UID bytes), whatever the selection held before.
C8_AllFieldsZero ==
  (call.fn = "init_card" /\ call.done /\ call.cardtype \notin Recognized) =>
    card = NoCard

\* C8: after a lookup with an unrecognized tag type the command width, the
\* address width and the memory size of the card selection are zero, the tag
\* type holds the unrecognized code, and the 4 UID bytes are what they were
\* before the lookup.
C8_GeometryZero ==
  (call.fn = "init_card" /\ call.done /\ call.cardtype \notin Recognized) =>
    /\ call.ret # 0
    /\ card.cmdsize = 0 /\ card.addrsize = 0 /\ card.cardsize = 0
    /\ card.tagtype = call.cardtype
    /\ card.uid = call.prior.uid

C8_Witness ==
  /\ call.fn = "init_card" /\ call.done
  /\ call.cardtype = 5 /\ call.prior.tagtype = 61 /\ call.prior.uid = CardUid
  /\ card = [tagtype |-> 5, cmdsize |-> 0, addrsize |-> 0, cardsize |-> 0,
             uid |-> CardUid]

\* C9: LegicRfWriter and LegicRfSimulate, for every argument and from every
\* prior state, send exactly one failure acknowledgment to the host, acquire
\* no sample, transmit no frame or bit, do not change the output line, and
\* leave the threshold, the keystream, the card selection and the card memory
\* image unchanged.
C9_StubsOnlyAnswer ==
  [][(pc = "idle" /\ op' \in {"writer", "simulate"}) =>
       /\ host' = <<cmd_send(0, 0, 0, <<>>, 0)>>
       /\ io'.samples = 0 /\ io'.tx = <<>> /\ io'.line = 0
       /\ dout' = dout /\ carrier' = carrier
       /\ input_threshold' = input_threshold
       /\ prng' = prng
       /\ card' = card
       /\ legic_mem' = legic_mem]_vars

C9_Witness ==
  /\ op = "writer" /\ pc = "idle"
  /\ host = <<AckFail>>
  /\ legic_mem # ZeroMem /\ dout = 1
  /\ input_threshold = 26 /\ prng.pos > 0 /\ card.tagtype = 61

\* the largest element of a non-empty set of numbers
MaxOf(S) == CHOOSE m \in S : \A x \in S : x <= m

\* C10: at the end of the calibration loop of setup_phase_reader, for every
\* non-empty sequence of amplitude samples with maximum M, the threshold is
\* 2 * M when M >= 8 and 16 when every sample is below 8: 2 * max(M, 8).
C10_Threshold ==
  pc = "tx_iv" =>
    /\ cal.n >= 1 /\ cal.seen # {}
    /\ input_threshold = 2 * MAX(MaxOf(cal.seen), 8)
    /\ MaxOf(cal.seen) >= 8 => input_threshold = 2 * MaxOf(cal.seen)
    /\ MaxOf(cal.seen) < 8 => input_threshold = 16

C10_Witness ==
  /\ pc = "tx_iv"
  /\ cal.n = 2 /\ cal.seen = {7, 13}
  /\ input_threshold = 26

\* C11: rx_bit acquires exactly 5 amplitude samples per call and decides only
\* from the samples at index 2 and 3: 1 when both are strictly above the
\* threshold, 0 without a diagnostic when both are strictly below it, and in
\* every other case (one above and one below, or either equal to the
\* threshold) 0 with the diagnostic that reports both samples and the
\* threshold; the diagnostic is emitted in exactly the ambiguous cases.
C11_BitDecision ==
  (call.fn = "rx_bit" /\ call.done) =>
    LET p2 == call.samples[3]
        p3 == call.samples[4]
        th == input_threshold
        above == p2 > th /\ p3 > th
        below == p2 < th /\ p3 < th
    IN /\ io.samples = 5
       /\ above => (call.out = 1 /\ io.diags = 0 /\ call.msg = <<>>)
       /\ below => (call.out = 0 /\ io.diags = 0 /\ call.msg = <<>>)
       /\ (~above /\ ~below) =>
            (call.out = 0 /\ io.diags = 1 /\ call.msg = <<p2, p3, th>>)

C11_Witness ==
  /\ call.fn = "rx_bit" /\ call.done
  /\ input_threshold = 26
  /\ call.samples = <<27, 27, 26, 27, 27>>
  /\ call.out = 0 /\ call.msg = <<26, 27, 26>>

\* the image at the start of a LegicRfReader session
C12_Start ==
  (pc = "idle" /\ pc' = "calib" /\ op' = "reader") =>
    \A k \in 0..(LEGIC_CARD_MEMSIZE - 1) : MemAt(legic_mem', k) = 0

\* the image and the response after a successful bulk read of length len
C12_Result ==
  (op = "reader" /\ pc = "out" /\ host # <<AckFail>>) =>
    /\ Len(host) = 1
    /\ host[1].arg0 = 1 /\ host[1].arg1 = len /\ host[1].len = len
    /\ Len(host[1].data) = len
    /\ \A k \in 0..(len - 1) :
         /\ k < LEGIC_CARD_MEMSIZE
         /\ MemAt(legic_mem, k) \in DataAt(U16(offset + k))
         /\ host[1].data[k + 1] = MemAt(legic_mem, k)
    /\ \A k \in len..(LEGIC_CARD_MEMSIZE - 1) : MemAt(legic_mem, k) = 0

\* C12: at the start of every LegicRfReader session all 1024 bytes of the card
\* memory image are zero, and after a successful bulk read with effective
\* length n the image holds at each position i < n the data byte returned for
\* card address offset + i, every position from n to 1023 is still zero, and
\* the host response carries length n and exactly those n bytes.
C12_ImageAndResponse == []C12_Result /\ [][C12_Start]_vars

C18_StoresInsideImage ==
  [][(pc = "read_loop" /\ rd' # <<>> /\ rd'[1].ret # -1) =>
       (i < LEGIC_CARD_MEMSIZE /\ ~oob')]_vars

\* C19: every read command built by read_byte during LegicRfInfo or
\* LegicRfReader fits the command field of the session: the index is below
\* the memory size of the card and (index << 1) | READ < 2^cmd_sz, so the
\* frame on the wire carries the whole address and the command bits do not
\* overlap the data bits in the CRC-4 input.
C19_CommandFits ==
  (op \in {"info", "reader"} /\ rd # <<>>) =>
    /\ rd[1].index < card.cardsize
    /\ 2 * rd[1].index + LEGIC_READ < Pow2(rd[1].cmd_sz)
    /\ rd[1].cmd = 2 * rd[1].index + LEGIC_READ

\* position of a program point in the order of setup_phase_reader
C14_Rank(p) ==
  CASE p = "idle" -> 0
    [] p = "calib" -> 1
    [] p = "tx_iv" -> 2
    [] p = "reseed" -> 3
    [] p = "rx_type" -> 4
    [] p = "ack" -> 5
    [] p = "init_card" -> 6
    [] OTHER -> 7

\* one step of a LegicRfInfo or LegicRfReader session, seen from the handshake
C14_Step ==
  (op' \in {"info", "reader"} /\ pc # "out") =>
    /\ C14_Rank(pc') \in {C14_Rank(pc), C14_Rank(pc) + 1}
    /\ (C14_Rank(pc) \in 2..6) => C14_Rank(pc') = C14_Rank(pc) + 1
    /\ (C14_Rank(pc) <= 1) =>
          (io'.tx = <<>> /\ io'.diags = 0 /\ io'.samples <= 1 /\ prng' = prng)
    /\ (pc = "calib" /\ pc' = "tx_iv") => input_threshold' >= 2 * THRESHOLD_FLOOR
    /\ (pc = "tx_iv") =>
          /\ prng' = legic_prng_forward(legic_prng_init(0), IV_BITS)
          /\ io'.tx = << <<>> \o [k \in 1..IV_BITS |-> BitAt(iv, k - 1)] >>
          /\ io'.samples = 0
    /\ (pc = "reseed") =>
          /\ prng' = [seed |-> iv, pos |-> 2]
          /\ io'.tx = <<>> /\ io'.samples = 0
    /\ (pc = "rx_type") =>
          /\ io'.samples = SAMPLES_PER_BIT * TYPE_BITS
          /\ io'.tx = <<>>
          /\ prng' = [seed |-> iv, pos |-> 2 + TYPE_BITS]
          /\ card_type' < Pow2(TYPE_BITS)
    /\ (pc = "ack") =>
          /\ io'.samples = 0
          /\ IF card_type \in {13, 29, 61}
               THEN /\ Len(io'.tx) = 1 /\ Len(io'.tx[1]) = TYPE_BITS
                    /\ prng' = [seed |-> iv, pos |-> 2 + 2 * TYPE_BITS]
               ELSE io'.tx = <<>> /\ prng' = prng
    /\ (pc = "init_card") => (io'.tx = <<>> /\ io'.samples = 0 /\ prng' = prng)
    /\ (rd' # <<>>) => C14_Rank(pc) = 7

\* C14: in every LegicRfInfo and LegicRfReader invocation the handshake steps
\* happen in this order, each at most once: the threshold calibration
\* completes; the keystream is reset to seed 0; the 7-bit IV frame is
\* transmitted; the keystream is re-seeded with the IV and advanced by 2; the
\* 6-bit card-type frame is received; the 6-bit acknowledgment is transmitted
\* (only for a recognized type). No bit is transmitted or demodulated before
\* the calibration completes, and no read command is issued before the
\* handshake has finished.
C14_HandshakeOrder == [][C14_Step]_vars

C14_Witness ==
  /\ op = "reader" /\ pc = "read_loop" /\ rd # <<>>
  /\ card_type = 61 /\ iv = 85
  /\ prng.seed = 85 /\ prng.pos > 2 + 2 * TYPE_BITS

\* the n low bits of v as they go on the air under the keystream st
C15_OnAir(v, n, st) ==
  <<>> \o [k \in 1..n |-> Xor(BitAt(v, k - 1), KeyBit(st.seed, st.pos + k - 1))]

\* the step that follows the card-type frame, and the lookup after it
C15_Step ==
  /\ (pc = "ack") =>
        /\ card_type \in 0..(Pow2(TYPE_BITS) - 1)
        /\ (card_type = 13) => io'.tx = <<C15_OnAir(25, TYPE_BITS, prng)>>
        /\ (card_type \in {29, 61}) => io'.tx = <<C15_OnAir(57, TYPE_BITS, prng)>>
        /\ (card_type \notin {13, 29, 61}) => (io'.tx = <<>> /\ prng' = prng)
        /\ io'.samples = 0 /\ host' = <<>>
  /\ (pc = "init_card") =>
        /\ (io.tx # <<>>) <=> (pc' # "out")
        /\ (pc' = "out") =>
              (host' = <<AckFail>> /\ nresp' = 1 /\ io'.tx = <<>> /\ io'.samples = 0)
  /\ (pc = "out" /\ rd = <<>>) => (io'.tx = <<>> /\ io'.samples = 0 /\ host' = <<>>)

\* C15: for every 6-bit received card-type value the acknowledgment is 0x19
\* for 0x0D, 0x39 for 0x1D and for 0x3D, and nothing for every other value;
\* an acknowledgment is transmitted exactly when the registry lookup that
\* follows succeeds, and when it fails the failure response is sent without
\* any further frame.
C15_Acknowledgment == [][C15_Step]_vars

C15_Witness ==
  /\ pc = "init_card" /\ card_type = 29
  /\ prng = [seed |-> 85, pos |-> 2 + 2 * TYPE_BITS]
  /\ io.tx = <<C15_OnAir(57, TYPE_BITS, [seed |-> 85, pos |-> 2 + TYPE_BITS])>>

\* bits sent and bits demodulated in the step that led to the state
C16_Bits(x) ==
  (IF x.tx = <<>> THEN 0 ELSE Len(x.tx[1])) + (x.samples \div SAMPLES_PER_BIT)

\* the session is past the re-seeding of the keystream
C16_Reseeded ==
  op \in {"info", "reader"} /\ pc \notin {"idle", "calib", "tx_iv", "reseed"}

\* the keystream between two frames
C16_Position ==
  C16_Reseeded =>
    /\ prng.seed = iv
    /\ prng.pos = 2 + (IF pc # "rx_type" THEN TYPE_BITS ELSE 0)
                    + (IF pc \notin {"rx_type", "ack"} /\ card_type \in {13, 29, 61}
                         THEN TYPE_BITS ELSE 0)
                    + nreads * (card.cmdsize + RESP_BITS)

\* the keystream over one frame exchange
C16_Step ==
  (C16_Reseeded /\ pc' # "idle") =>
    /\ prng'.seed = prng.seed
    /\ prng'.pos = prng.pos + C16_Bits(io')
    /\ prng'.pos >= prng.pos

\* C16: from the re-seeding of the keystream until the operation ends the
\* keystream is never re-initialised and never moved backwards; after the
\* offset of 2 it advances by exactly one for each bit transmitted or
\* demodulated, so that between any two frames its position is 2 plus the
\* number of bits exchanged since the re-seeding.
C16_KeystreamAccounting == []C16_Position /\ [][C16_Step]_vars

C16_Witness ==
  /\ op = "reader" /\ pc = "read_loop" /\ nreads = 2 /\ card.cmdsize = 6
  /\ prng = [seed |-> 85, pos |-> 2 + 2 * TYPE_BITS + 2 * (6 + RESP_BITS)]

\* the card-type frame has been received
C17_Sampled ==
  (call.fn = "wait" /\ pc = "ack") =>
    /\ io.samples = SAMPLES_PER_BIT * TYPE_BITS
    /\ call.first >= call.ts + TAG_FRAME_WAIT

\* what happens between the end of the IV frame and the first sample
C17_Step ==
  /\ (pc = "tx_iv") => (call'.ts = call'.now /\ call'.ts >= call.now + tx_time(io'.tx[1], 0))
  /\ (pc = "reseed") =>
        /\ prng' = [seed |-> iv, pos |-> 2]
        /\ call'.now >= call.ts /\ call'.first = -1 /\ io'.samples = 0
  /\ (pc \in {"reseed", "wait", "rx_type"}) => call'.ts = call.ts
  /\ (io'.samples > 0) =>
        /\ pc = "rx_type" /\ prng = [seed |-> iv, pos |-> 2]
        /\ call.first = -1 /\ call'.first >= call.ts + TAG_FRAME_WAIT

\* C17: in the session handshake the first sample of the 6-bit card-type
\* frame is acquired no earlier than 330 microseconds after the end of the IV
\* frame transmission (the time read right after the trailing pause of the
\* frame), and the keystream is re-seeded and advanced by 2 inside that gap,
\* before sampling begins.
C17_FrameWait == []C17_Sampled /\ [][C17_Step]_vars

C17_Witness ==
  /\ call.fn = "wait" /\ pc = "ack"
  /\ call.first = call.ts + TAG_FRAME_WAIT
  /\ prng = [seed |-> 85, pos |-> 2 + TYPE_BITS]

====
